---- MODULE Spec2Model ----
(***************************************************************************)
(* ShadFocus: the active-timer state machine of src/App.tsx                *)
(* (AuthenticatedApp, second listing, lines 693-1813) over the Firestore   *)
(* gateway of src/services/db.ts.                                          *)
(*                                                                         *)
(* One user, several clients (tabs / devices) of that user.  The store is  *)
(* the user's Firestore documents; every client keeps React state fed by   *)
(* snapshot listeners.  A handler or listener callback is one action and   *)
(* includes the render it causes and the effects that render runs.         *)
(*                                                                         *)
(* Units.  Timestamps are epoch milliseconds.  The code keeps seconds as   *)
(* floating point numbers ((now - startTime) / 1000); the model keeps      *)
(* every such quantity in thousandths of a second, so the arithmetic is    *)
(* exact: pausedDuration and durationSeconds hold seconds * 1000,          *)
(* Math.floor(x) of a seconds value is (x \div 1000) * 1000.               *)
(* initialDuration, timeLeft, stopwatchSeconds and timerDuration are whole *)
(* numbers in the code and are kept in their own unit (s, s, s, min).      *)
(***************************************************************************)
EXTENDS Integers, FiniteSets, Sequences, TLC

\* ------------------------------------------------------------------ bounds

\* Time passes in steps of TimeStep ms, at most MaxTimeSteps of them.
TimeStep == 30500
MaxTimeSteps == 2
\* At most MaxClicks uses of a control (start/pause/resume, reset, mode,
\* finish, +5/-5, settings form) by all clients together.
MaxClicks == 4
\* At most MaxSessions session documents are written.
MaxSessions == 2
\* The value typed in the settings form ranges over 1..MaxFormMinutes.
MaxFormMinutes == 1
\* Around the 1 second threshold of handleFinishEarly time passes in steps
\* of FineStep ms, at most MaxFineSteps of them.
FineStep == 500
MaxFineSteps == 3

\* ------------------------------------------------------- program constants

\* DEFAULT_SETTINGS.timerDuration, and the fallback (settings?.timerDuration || 25).
DefaultMinutes == 25
\* changeDuration clamps to [MinMinutes, MaxMinutes].
MinMinutes == 1
MaxMinutes == 180
\* The +5 / -5 duration buttons.
DurationStep == 5
\* Seconds per minute, milliseconds per second.
SecPerMin == 60
MsPerSec == 1000
\* handleFinishEarly saves only if duration > 1 (second).
MinSavedSeconds == 1
\* The clock at the first state (Date.now() is never 0).
Epoch == 1000000

\* DEFAULT_PROJECTS of constants.ts: the projects a new user is given.
DEFAULT_PROJECTS ==
    {[id |-> 1, name |-> "Work", color |-> "blue"],
     [id |-> 2, name |-> "Study", color |-> "green"]}
\* The projects stored at the first state: the defaults and one project the
\* user has created.
InitialProjects ==
    DEFAULT_PROJECTS \cup {[id |-> 3, name |-> "Side", color |-> "purple"]}
\* What the notes input holds: nothing, or a text.
NoteTexts == {"", "notes"}
\* What the tag list holds: no tag, or one.
TagLists == {<<>>, <<"tag">>}

\* The user's clients (two tabs or devices signed in as the same user).
Clients == {"a", "b"}
Modes == {"pomodoro", "stopwatch"}

\* An optional field that is undefined / not in the document.
Absent == -1
\* JavaScript truthiness of an optional number: undefined and 0 are falsy.
Truthy(x) == x # Absent /\ x # 0

Max(a, b) == IF a >= b THEN a ELSE b
Min(a, b) == IF a <= b THEN a ELSE b
\* Math.floor of a value held in thousandths, in whole units.
Floor(x) == x \div MsPerSec

VARIABLES
    now,            \* Date.now(), ms
    activeTimers,   \* collection users/{uid}/activeTimers: doc id -> document
    sessions,       \* collection users/{uid}/sessions: set of documents
    settingsDoc,    \* users/{uid}/settings/config: timerDuration (minutes)
    projects,       \* collection users/{uid}/projects: set of documents
    local,          \* per client: the React state of AuthenticatedApp
    echo,           \* clients whose own write of activeTimers/current has not
                    \* been delivered to their own listener yet
    sessionWritesFail, \* the gateway rejects session writes
    nextId,         \* next fresh session id (crypto.randomUUID)
    hist            \* history variables, not read by the program:
                    \*   inst: the number the next started timer gets (timer.inst)
                    \*   ran: ms the stored timer has been running, while plain
                    \*   plain: the stored timer was started by the start control
                    \*          and only paused and resumed since
                    \*   log: one entry per saveSession that built a session
                    \*   done: per client, whether it has materialized the
                    \*         activeTimer it holds ("no", "auto", "early")
                    \*   clicks: how many controls were used
                    \*   changes: the +5 call, or the +5 and -5 calls, of
                    \*            changeDuration made last on the stored timer,
                    \*            with no other write of the timer since
                    \*   base: the stored timer before the first of them

vars == <<now, activeTimers, sessions, settingsDoc, projects, local, echo,
          sessionWritesFail, nextId, hist>>

\* ------------------------------------------------------------ the gateway

\* activeTimer state of a client when the listener delivered null.
Null == [null |-> TRUE]

\* The id of the one ActiveTimer document: .collection('activeTimers').doc('current').
CurrentDoc == "current"

\* The store as one value, so that a handler's writes can be chained.
Db == [activeTimers |-> activeTimers, sessions |-> sessions,
       settingsDoc |-> settingsDoc, projects |-> projects,
       nextId |-> nextId, hist |-> hist]

\* docSnap of activeTimers/current as subscribeToActiveTimer hands it to its
\* callback: the document, or null when it does not exist.
Snapshot(D) ==
    IF CurrentDoc \in DOMAIN D.activeTimers THEN D.activeTimers[CurrentDoc] ELSE Null

\* DocumentReference.set: creates or replaces the document.
SetDoc(coll, id, doc) ==
    [d \in (DOMAIN coll) \cup {id} |-> IF d = id THEN doc ELSE coll[d]]

\* DocumentReference.delete.
DeleteDoc(coll, id) == [d \in (DOMAIN coll) \ {id} |-> coll[d]]

\* The document id startTimer writes to, were there one document per mode.
StartTimerDocPerMode(timerData) == timerData.mode

\* The document id startTimer writes to.
StartTimerDoc(timerData) == CurrentDoc

\* startTimer(userId, timerData) at time t: builds the document from timerData,
\* except startTime, which is Date.now(), and sets activeTimers/current.
\* fromStart: the call comes from the start control (history only).
startTimer(D, timerData, t, fromStart) ==
    LET timerDoc == [mode |-> timerData.mode,
                     isActive |-> timerData.isActive,
                     startTime |-> t,
                     pausedDuration |-> IF timerData.pausedDuration = Absent
                                        THEN 0 ELSE timerData.pausedDuration,
                     projectId |-> timerData.projectId,
                     projectName |-> timerData.projectName,
                     notes |-> timerData.notes,
                     tags |-> timerData.tags,
                     initialDuration |-> timerData.initialDuration,
                     pausedAt |-> timerData.pausedAt,
                     inst |-> timerData.inst]
    IN [D EXCEPT !.activeTimers = SetDoc(@, StartTimerDoc(timerData), timerDoc),
                 !.hist = IF fromStart
                          THEN [@ EXCEPT !.inst = @ + 1, !.ran = 0, !.plain = TRUE,
                                         !.changes = <<>>, !.base = Null]
                          ELSE [@ EXCEPT !.ran = 0, !.plain = FALSE,
                                         !.changes = <<>>, !.base = Null]]

\* pauseTimer, were it to write without looking at isActive.
pauseTimerUnchecked(D, t) ==
    LET timer == Snapshot(D) IN
    IF timer = Null THEN D
    ELSE [D EXCEPT !.activeTimers[CurrentDoc] =
                       [timer EXCEPT !.isActive = FALSE, !.pausedAt = t]]

\* pauseTimer, were it to store the running time it computes in pausedDuration.
pauseTimerStoringRunningTime(D, t) ==
    LET timer == Snapshot(D) IN
    IF timer = Null \/ ~timer.isActive THEN D
    ELSE [D EXCEPT !.activeTimers[CurrentDoc] =
                       [timer EXCEPT !.isActive = FALSE, !.pausedAt = t,
                                     !.pausedDuration = (t - timer.startTime) - @]]

\* pauseTimer(userId) at time t.
pauseTimer(D, t) ==
    LET timer == Snapshot(D) IN
    IF timer = Null \/ ~timer.isActive THEN D
    ELSE [D EXCEPT !.activeTimers[CurrentDoc] =
                       [timer EXCEPT !.isActive = FALSE, !.pausedAt = t],
                   !.hist.changes = <<>>, !.hist.base = Null]

\* The pausedDuration resumeTimer writes, were the pause not added.
NewPausedDurationKept(currentPausedDuration, pausedAt, t) == currentPausedDuration

\* newPausedDuration of resumeTimer: currentPausedDuration + (now - pausedAt) / 1000.
NewPausedDuration(currentPausedDuration, pausedAt, t) ==
    currentPausedDuration + (t - pausedAt)

\* The value of a field after update() with undefined for it, were undefined
\* values ignored by the database handle.
UpdateUndefinedIgnored(old) == old

\* The value of a field after update() with undefined for it.  The database
\* handle and its treatment of undefined come from lib/firebase; the field is
\* taken to be cleared, as db.ts means it and the specification states it
\* (every read of pausedAt in the program is a truthiness test, which cannot
\* tell undefined from missing).
UpdateUndefined(old) == Absent

\* if (timer.pausedAt), were the pause added whatever pausedAt is.
HasPausedAtAlways(timer) == TRUE

\* if (timer.pausedAt) of resumeTimer.
HasPausedAt(timer) == Truthy(timer.pausedAt)

\* resumeTimer(userId) at time t.
resumeTimer(D, t) ==
    LET timer == Snapshot(D)
        currentPausedDuration == IF Truthy(timer.pausedDuration)
                                 THEN timer.pausedDuration ELSE 0
    IN
    IF timer = Null THEN D
    ELSE IF HasPausedAt(timer)
    THEN [D EXCEPT !.activeTimers[CurrentDoc] =
             [timer EXCEPT !.isActive = TRUE, !.pausedAt = UpdateUndefined(@),
                           !.pausedDuration =
                               NewPausedDuration(currentPausedDuration, timer.pausedAt, t)],
                   !.hist.changes = <<>>, !.hist.base = Null]
    ELSE [D EXCEPT !.activeTimers[CurrentDoc] =
             [timer EXCEPT !.isActive = TRUE, !.pausedAt = UpdateUndefined(@)],
                   !.hist.changes = <<>>, !.hist.base = Null]

\* stopTimer(userId).
stopTimer(D) ==
    [D EXCEPT !.activeTimers = DeleteDoc(@, CurrentDoc),
              !.hist.ran = 0, !.hist.plain = FALSE,
              !.hist.changes = <<>>, !.hist.base = Null]

\* updateTimerMetadata, were it to set() the two fields with merge: a missing
\* document is created, with nothing but them.
updateTimerMetadataMerging(D, notes, tags) ==
    IF Snapshot(D) = Null
    THEN [D EXCEPT !.activeTimers =
             SetDoc(@, CurrentDoc,
                    [mode |-> "", isActive |-> FALSE, startTime |-> Absent,
                     pausedDuration |-> Absent, projectId |-> Absent,
                     projectName |-> "", notes |-> notes, tags |-> tags,
                     initialDuration |-> Absent, pausedAt |-> Absent, inst |-> 0])]
    ELSE [D EXCEPT !.activeTimers[CurrentDoc].notes = notes,
                   !.activeTimers[CurrentDoc].tags = tags]

\* updateTimerMetadata(userId, notes, tags): update() of activeTimers/current,
\* which is rejected when the document does not exist.
updateTimerMetadata(D, notes, tags) ==
    IF Snapshot(D) = Null THEN D
    ELSE [D EXCEPT !.activeTimers[CurrentDoc].notes = notes,
                   !.activeTimers[CurrentDoc].tags = tags]

\* deleteProject, were it to delete the project's sessions as well.
deleteProjectAndSessions(D, projectId) ==
    [D EXCEPT !.projects = {p \in @ : p.id # projectId},
              !.sessions = {s \in @ : s.projectId # projectId}]

\* deleteProject(userId, projectId): deletes projects/{projectId}.
deleteProject(D, projectId) ==
    [D EXCEPT !.projects = {p \in @ : p.id # projectId}]

\* updateProject(userId, projectId, updates): update() of projects/{projectId},
\* rejected when the document does not exist.
updateProject(D, projectId, name, color) ==
    [D EXCEPT !.projects = {IF p.id = projectId
                            THEN [p EXCEPT !.name = name, !.color = color]
                            ELSE p : p \in @}]

\* initializeDefaultProjects(userId): sets one document per default project.
initializeDefaultProjects(D) ==
    [D EXCEPT !.projects = {p \in @ : p.id \notin {q.id : q \in DEFAULT_PROJECTS}}
                              \cup DEFAULT_PROJECTS]

\* snapshot.docs of the projects collection: the documents in id order.
ProjectList(P) ==
    [i \in 1..Cardinality(P) |->
        CHOOSE p \in P : Cardinality({q \in P : q.id < p.id}) = i - 1]

\* addSession(userId, session): sets sessions/{session.id}; the promise is
\* rejected, and nothing stored, while the gateway rejects session writes.
addSession(D, session) ==
    IF sessionWritesFail THEN D
    ELSE [D EXCEPT !.sessions = {s \in @ : s.id # session.id} \cup {session}]

\* updateSettingsInDb(userId, settings).
updateSettingsInDb(D, timerDuration) ==
    [D EXCEPT !.settingsDoc = timerDuration]

\* -------------------------------------------------- the time arithmetic

\* (settings?.timerDuration || 25) * 60: the display's and the completion
\* check's fallback for a missing initialDuration.
DefaultDuration(timerDuration) ==
    (IF Truthy(timerDuration) THEN timerDuration ELSE DefaultMinutes) * SecPerMin

\* elapsedSeconds of calculateTime, were the paused branch to read the clock.
ElapsedSecondsUnfrozen(timer, t) ==
    (t - timer.startTime)
        - (IF Truthy(timer.pausedDuration) THEN timer.pausedDuration ELSE 0)

\* elapsedSeconds of calculateTime at time t (thousandths of a second).
ElapsedSeconds(timer, t) ==
    LET totalElapsed == t - timer.startTime
        pausedDuration == IF Truthy(timer.pausedDuration) THEN timer.pausedDuration ELSE 0
    IN IF timer.isActive
       THEN totalElapsed - pausedDuration
       ELSE LET pausedAt == IF Truthy(timer.pausedAt) THEN timer.pausedAt ELSE t
                elapsedAtPause == pausedAt - timer.startTime
            IN elapsedAtPause - pausedDuration

\* calculateTime, were it to count on from the displayTime it finds.
calculateTimeCounting(L, t) ==
    LET timer == L.activeTimer IN
    IF ~Truthy(timer.startTime) \/ ~timer.isActive THEN L
    ELSE IF timer.mode = "pomodoro"
    THEN [L EXCEPT !.timeLeft = Max(0, @ - 1), !.stopwatchSeconds = 0]
    ELSE [L EXCEPT !.timeLeft = 0, !.stopwatchSeconds = @ + 1]

\* calculateTime of the display effect at time t: the displayTime it sets
\* (the client's state L with timeLeft / stopwatchSeconds replaced).
calculateTime(L, t) ==
    LET timer == L.activeTimer IN
    IF ~Truthy(timer.startTime) THEN L
    ELSE LET elapsedSeconds == ElapsedSeconds(timer, t) IN
         IF timer.mode = "pomodoro"
         THEN LET initialDuration == IF Truthy(timer.initialDuration)
                                     THEN timer.initialDuration
                                     ELSE DefaultDuration(L.settings)
                  remaining == Max(0, initialDuration * MsPerSec - elapsedSeconds)
              IN [L EXCEPT !.timeLeft = Floor(remaining), !.stopwatchSeconds = 0]
         ELSE [L EXCEPT !.timeLeft = 0, !.stopwatchSeconds = Floor(elapsedSeconds)]

\* The listeners the subscription effect registers.
Subscriptions == {"projects", "sessions", "settings", "activeTimer"}

\* window.setInterval: a handle no live interval of the client has.
NewInterval(L) ==
    CHOOSE id \in 1..(Cardinality(L.intervals) + 1) : id \notin L.intervals

\* The cleanup of the display effect, were it to clear nothing.
DisplayCleanupNone(L) == L

\* The cleanup the display effect returns when it has set an interval:
\* if (displayUpdateRef.current) clearInterval(displayUpdateRef.current).
\* displayUpdateRef is read nowhere else, so the handle of an interval
\* already cleared is held as Absent, like null.
DisplayCleanup(L) ==
    [L EXCEPT !.intervals = @ \ {L.displayUpdateRef}, !.displayUpdateRef = Absent]

\* The display effect (deps activeTimer, settings.timerDuration) at time t:
\* with a timer it computes the time and sets the 1 Hz interval.
DisplayEffect(L, t) ==
    IF L.activeTimer = Null
    THEN [L EXCEPT !.timeLeft = DefaultDuration(L.settings), !.stopwatchSeconds = 0]
    ELSE [calculateTime(L, t) EXCEPT !.intervals = @ \cup {NewInterval(L)},
                                     !.displayUpdateRef = NewInterval(L)]

\* ------------------------------------------------ the session materializer

\* activeProject of a client: the project selected, else the first one, else
\* the first default.
activeProject(L) ==
    IF Len(L.projects) > 0
    THEN IF \E i \in 1..Len(L.projects) : L.projects[i].id = L.activeProjectId
         THEN L.projects[CHOOSE i \in 1..Len(L.projects) :
                            L.projects[i].id = L.activeProjectId]
         ELSE L.projects[1]
    ELSE ProjectList(DEFAULT_PROJECTS)[1]

\* projectToSave of saveSession, were it the first project whenever the
\* timer's project is gone.
projectToSaveFirst(L) ==
    IF \E i \in 1..Len(L.projects) : L.projects[i].id = L.activeTimer.projectId
    THEN L.projects[CHOOSE i \in 1..Len(L.projects) :
                       L.projects[i].id = L.activeTimer.projectId]
    ELSE IF Len(L.projects) > 0 THEN L.projects[1]
    ELSE ProjectList(DEFAULT_PROJECTS)[1]

\* projectToSave of saveSession: the project of the timer's projectId as the
\* client lists it, else activeProject.
projectToSaveOf(L) ==
    IF \E i \in 1..Len(L.projects) : L.projects[i].id = L.activeTimer.projectId
    THEN L.projects[CHOOSE i \in 1..Len(L.projects) :
                       L.projects[i].id = L.activeTimer.projectId]
    ELSE activeProject(L)

\* saveSession(actualDurationSeconds) of client c at time t; actualDurationSeconds
\* is in thousandths, Absent for undefined.  via: which caller (history only).
saveSession(c, L, D, actualDurationSeconds, via, t) ==
    LET timer == L.activeTimer
        elapsedSeconds == (t - timer.startTime)
                            - (IF Truthy(timer.pausedDuration) THEN timer.pausedDuration ELSE 0)
        initialDuration == IF Truthy(timer.initialDuration)
                           THEN timer.initialDuration
                           ELSE L.settings * SecPerMin
        duration == IF actualDurationSeconds # Absent THEN actualDurationSeconds
                    ELSE IF timer.mode = "pomodoro"
                    THEN initialDuration * MsPerSec
                           - Max(0, initialDuration * MsPerSec - elapsedSeconds)
                    ELSE Floor(elapsedSeconds) * MsPerSec
        projectToSave == projectToSaveOf(L)
        newSession == [id |-> D.nextId,
                       projectId |-> timer.projectId,
                       projectName |-> timer.projectName,
                       startTime |-> timer.startTime,
                       endTime |-> t,
                       durationSeconds |-> duration,
                       notes |-> IF timer.notes # "" THEN timer.notes ELSE L.currentNotes,
                       tags |-> timer.tags,
                       color |-> projectToSave.color]
        entry == [id |-> D.nextId, inst |-> timer.inst, by |-> c, via |-> via,
                  after |-> D.hist.done[c], seen |-> timer, stored |-> Snapshot(D),
                  ran |-> D.hist.ran, plain |-> D.hist.plain,
                  at |-> t, duration |-> duration, written |-> ~sessionWritesFail]
        D1 == [D EXCEPT !.nextId = @ + 1,
                        !.hist.log = @ \cup {entry},
                        !.hist.done[c] = via]
    IN IF timer = Null THEN D
       ELSE stopTimer(addSession(D1, newSession))

\* The completion check, were it to wait for a time left below 0.
CompletionEffectBelowZero(c, L, D, t) ==
    IF /\ L.activeTimer # Null
       /\ L.activeTimer.mode = "pomodoro"
       /\ L.activeTimer.isActive
       /\ L.timeLeft < 0
    THEN saveSession(c, L, D, L.activeTimer.initialDuration * MsPerSec, "auto", t)
    ELSE D

\* The completion check for pomodoro (deps activeTimer, timeLeft, user,
\* settings, saveSession), run by client c at time t.
CompletionEffect(c, L, D, t) ==
    IF /\ L.activeTimer # Null
       /\ L.activeTimer.mode = "pomodoro"
       /\ L.activeTimer.isActive
       /\ L.timeLeft = 0
    THEN LET initialDuration == IF Truthy(L.activeTimer.initialDuration)
                                THEN L.activeTimer.initialDuration
                                ELSE DefaultDuration(L.settings)
         IN saveSession(c, L, D, initialDuration * MsPerSec, "auto", t)
    ELSE D

\* One commit of client c at time t: its state went from Lold to Lnew (and
\* the settings object was replaced iff newSettings); the effects whose
\* dependencies changed run in the order the component declares them, each
\* with the values of this render (saveSession, a dependency of the completion
\* check, is a new function when one of its own dependencies changed); the
\* displayTime the display effect sets causes one more render, in which the
\* completion check runs again iff timeLeft changed.  The result is the
\* client's state and the store.
Render(c, Lold, Lnew, newSettings, D, t) ==
    LET displayDeps == Lnew.activeTimer # Lold.activeTimer \/ Lnew.settings # Lold.settings
        \* activeProject is looked up in projects by activeProjectId
        saveSessionDeps == \/ Lnew.currentNotes # Lold.currentNotes
                           \/ Lnew.currentTags # Lold.currentTags
                           \/ Lnew.activeProjectId # Lold.activeProjectId
                           \/ Lnew.projects # Lold.projects
        completionDeps == \/ Lnew.activeTimer # Lold.activeTimer
                          \/ Lnew.timeLeft # Lold.timeLeft
                          \/ Lnew.settings # Lold.settings
                          \/ newSettings
                          \/ saveSessionDeps
        \* the cleanup of the effect's last run, if it returned one, runs first
        L0 == IF displayDeps /\ Lold.activeTimer # Null THEN DisplayCleanup(Lnew) ELSE Lnew
        L1 == IF displayDeps THEN DisplayEffect(L0, t) ELSE Lnew
        D1 == IF completionDeps THEN CompletionEffect(c, Lnew, D, t) ELSE D
        D2 == IF L1.timeLeft # Lnew.timeLeft THEN CompletionEffect(c, L1, D1, t) ELSE D1
    IN [L |-> L1, D |-> D2]

\* ------------------------------------------------------------ the handlers

\* timerData that handleSaveSettings and changeDuration build from the
\* client's activeTimer, with initialDuration for newDuration minutes.
RewrittenTimerData(activeTimer, newDuration) ==
    [mode |-> activeTimer.mode,
     isActive |-> activeTimer.isActive,
     startTime |-> activeTimer.startTime,
     pausedDuration |-> IF Truthy(activeTimer.pausedDuration)
                        THEN activeTimer.pausedDuration ELSE 0,
     projectId |-> activeTimer.projectId,
     projectName |-> activeTimer.projectName,
     notes |-> activeTimer.notes,
     tags |-> activeTimer.tags,
     initialDuration |-> newDuration * SecPerMin,
     pausedAt |-> IF Truthy(activeTimer.pausedAt) THEN activeTimer.pausedAt ELSE Absent,
     inst |-> activeTimer.inst]

\* toggleTimer, were it to give every new timer an initialDuration.
toggleTimerAlwaysInitialDuration(c, L, D, t) ==
    IF L.activeTimer = Null
    THEN LET timerData == [mode |-> L.selectedMode,
                           isActive |-> TRUE,
                           startTime |-> t,
                           pausedDuration |-> 0,
                           projectId |-> activeProject(L).id,
                           projectName |-> activeProject(L).name,
                           notes |-> L.currentNotes,
                           tags |-> L.currentTags,
                           initialDuration |-> L.settings * SecPerMin,
                           pausedAt |-> Absent,
                           inst |-> D.hist.inst]
         IN startTimer(D, timerData, t, TRUE)
    ELSE IF L.activeTimer.isActive
    THEN pauseTimer(D, t)
    ELSE resumeTimer(D, t)

\* toggleTimer of client c at time t: start, pause or resume, by the
\* client's own activeTimer.
toggleTimer(c, L, D, t) ==
    IF L.activeTimer = Null
    THEN LET timerData == [mode |-> L.selectedMode,
                           isActive |-> TRUE,
                           startTime |-> t,
                           pausedDuration |-> 0,
                           projectId |-> activeProject(L).id,
                           projectName |-> activeProject(L).name,
                           notes |-> L.currentNotes,
                           tags |-> L.currentTags,
                           initialDuration |-> IF L.selectedMode = "pomodoro"
                                               THEN L.settings * SecPerMin ELSE Absent,
                           pausedAt |-> Absent,
                           inst |-> D.hist.inst]
         IN startTimer(D, timerData, t, TRUE)
    ELSE IF L.activeTimer.isActive
    THEN pauseTimer(D, t)
    ELSE resumeTimer(D, t)

\* elapsedSeconds of handleFinishEarly at time t.
FinishElapsedSeconds(activeTimer, t) ==
    (t - activeTimer.startTime)
        - (IF Truthy(activeTimer.pausedDuration) THEN activeTimer.pausedDuration ELSE 0)

\* duration of handleFinishEarly at time t (thousandths of a second).
FinishDuration(L, t) ==
    LET activeTimer == L.activeTimer
        elapsedSeconds == FinishElapsedSeconds(activeTimer, t)
    IN IF activeTimer.mode = "pomodoro"
       THEN LET initialDuration == IF Truthy(activeTimer.initialDuration)
                                   THEN activeTimer.initialDuration
                                   ELSE L.settings * SecPerMin
                remaining == Max(0, initialDuration * MsPerSec - elapsedSeconds)
            IN initialDuration * MsPerSec - remaining
       ELSE Floor(elapsedSeconds) * MsPerSec

\* handleFinishEarly, were it to save whatever the duration.
handleFinishEarlyAlwaysSaving(c, L, D, t) ==
    IF L.activeTimer = Null THEN D
    ELSE saveSession(c, L, D, FinishDuration(L, t), "early", t)

\* handleFinishEarly of client c at time t.
handleFinishEarly(c, L, D, t) ==
    IF L.activeTimer = Null THEN D
    ELSE LET duration == FinishDuration(L, t) IN
         \* now - undefined is NaN, and so is duration: NaN > 1 is false
         IF L.activeTimer.startTime # Absent /\ duration > MinSavedSeconds * MsPerSec
         THEN saveSession(c, L, D, duration, "early", t)
         ELSE stopTimer(D)

\* handleSaveSettings(newSettings) of client c at time t, and the render it
\* causes (setSettings replaces the settings object).
handleSaveSettings(c, L, D, timerDuration, t) ==
    LET D1 == updateSettingsInDb(D, timerDuration)
        L1 == [L EXCEPT !.settings = timerDuration]
        D2 == IF /\ L.activeTimer # Null
                 /\ L.activeTimer.mode = "pomodoro"
                 /\ L.activeTimer.isActive
                 /\ timerDuration # L.settings
              THEN startTimer(D1, RewrittenTimerData(L.activeTimer, timerDuration), t, FALSE)
              ELSE D1
    IN Render(c, L, L1, TRUE, D2, t)

\* The store after a changeDuration(change) call (history only: a +5 call
\* made with a pomodoro timer stored is noted, and so is a -5 call that
\* follows it).
ChangeNoted(Dold, Dnew, change) ==
    IF Snapshot(Dold) # Null /\ Snapshot(Dold).mode = "pomodoro" /\ change = DurationStep
    THEN [Dnew EXCEPT !.hist.changes = <<change>>, !.hist.base = Snapshot(Dold)]
    ELSE IF Snapshot(Dold) # Null /\ Dold.hist.changes = <<DurationStep>>
    THEN [Dnew EXCEPT !.hist.changes = Append(Dold.hist.changes, change),
                      !.hist.base = Dold.hist.base]
    ELSE [Dnew EXCEPT !.hist.changes = <<>>, !.hist.base = Null]

\* changeDuration, were it to rewrite the timer whether it runs or is paused.
changeDurationOfAnyTimer(c, L, D, change, t) ==
    LET newDuration == Max(MinMinutes, Min(MaxMinutes, L.settings + change))
        L1 == [L EXCEPT !.settings = newDuration]
        D1 == updateSettingsInDb(D, newDuration)
        D2 == IF /\ L.activeTimer # Null
                 /\ L.activeTimer.mode = "pomodoro"
              THEN startTimer(D1, RewrittenTimerData(L.activeTimer, newDuration), t, FALSE)
              ELSE D1
    IN Render(c, L, L1, TRUE, ChangeNoted(D, D2, change), t)

\* changeDuration(change) of client c at time t, and the render it causes.
changeDuration(c, L, D, change, t) ==
    LET newDuration == Max(MinMinutes, Min(MaxMinutes, L.settings + change))
        L1 == [L EXCEPT !.settings = newDuration]
        D1 == updateSettingsInDb(D, newDuration)
        D2 == IF /\ L.activeTimer # Null
                 /\ L.activeTimer.mode = "pomodoro"
                 /\ L.activeTimer.isActive
              THEN startTimer(D1, RewrittenTimerData(L.activeTimer, newDuration), t, FALSE)
              ELSE D1
    IN Render(c, L, L1, TRUE, ChangeNoted(D, D2, change), t)

\* ------------------------------------------------------------- the actions

\* The model's bounds on what a step may produce.
WithinBounds(D) ==
    /\ D.nextId <= MaxSessions + 1
    /\ D.hist.clicks <= MaxClicks

\* A control can still be used within the model's bound on clicks.
CanClick == hist.clicks < MaxClicks

\* The store when a control is used (history: one more click).
Clicked == [Db EXCEPT !.hist.clicks = @ + 1]

\* The step's result: client c's state and the store.  A write of the timer
\* document by c is echoed to c's own listener (Firestore raises the snapshot
\* of a local write at once, before the server has it); c leaves echo when
\* it holds the stored document.
Commit(c, L, D) ==
    /\ WithinBounds(D)
    /\ \/ L # local[c]
       \/ [D EXCEPT !.hist.clicks = 0] # [Db EXCEPT !.hist.clicks = 0]
    /\ local' = [local EXCEPT ![c] = L]
    /\ activeTimers' = D.activeTimers
    /\ sessions' = D.sessions
    /\ settingsDoc' = D.settingsDoc
    /\ projects' = D.projects
    /\ nextId' = D.nextId
    /\ hist' = D.hist
    /\ echo' = {x \in (IF D.activeTimers # activeTimers THEN echo \cup {c} ELSE echo) :
                  (IF x = c THEN L ELSE local[x]).activeTimer # Snapshot(D)}

\* The state after the clients have mounted, whatever the gateway does.
Constructed ==
    /\ now = Epoch
    /\ activeTimers = <<>>
    /\ sessions = {}
    /\ settingsDoc = DefaultMinutes
    /\ projects = InitialProjects
    /\ local = [c \in Clients |->
                  [activeTimer |-> Null, settings |-> DefaultMinutes,
                   timeLeft |-> DefaultMinutes * SecPerMin, stopwatchSeconds |-> 0,
                   selectedMode |-> "pomodoro",
                   projects |-> ProjectList(InitialProjects),
                   activeProjectId |-> ProjectList(InitialProjects)[1].id,
                   projectToDelete |-> Absent,
                   currentNotes |-> "", currentTags |-> <<>>,
                   intervals |-> {}, displayUpdateRef |-> Absent,
                   subscriptions |-> Subscriptions, mounted |-> TRUE]]
    /\ echo = {}
    /\ nextId = 1
    /\ hist = [inst |-> 1, ran |-> 0, plain |-> TRUE, log |-> {}, clicks |-> 0,
               done |-> [c \in Clients |-> "no"], changes |-> <<>>, base |-> Null]

Init == Constructed /\ sessionWritesFail = FALSE

\* The same over a gateway that rejects the writes of session documents.
InitFaulty == Constructed /\ sessionWritesFail = TRUE

\* Time passes by d ms (history: the stored timer ran for d more ms if running).
\* A step of time is long against the echo of a local write: none is pending.
Pass(d) ==
    /\ echo = {}
    /\ now' = now + d
    /\ hist' = [hist EXCEPT !.ran = IF /\ hist.plain
                                       /\ Snapshot(Db) # Null
                                       /\ Snapshot(Db).isActive
                                    THEN @ + d ELSE @]
    /\ UNCHANGED <<activeTimers, sessions, settingsDoc, projects, local, echo,
                   sessionWritesFail, nextId>>

Advance ==
    /\ now + TimeStep <= Epoch + MaxTimeSteps * TimeStep
    /\ Pass(TimeStep)

\* The 1 Hz interval of the display effect fires on client c: calculateTime,
\* then the render its setDisplayTime causes.
Tick(c) ==
    /\ local[c].intervals # {}
    /\ LET r == Render(c, local[c], calculateTime(local[c], now), FALSE, Db, now)
       IN Commit(c, r.L, r.D)
    /\ UNCHANGED <<now, sessionWritesFail>>

\* The listener, were it to call back for an existing document only.
DeliverTimerExistingOnly(c) ==
    /\ "activeTimer" \in local[c].subscriptions
    /\ Snapshot(Db) # Null
    /\ local[c].activeTimer # Snapshot(Db)
    /\ LET timer == Snapshot(Db)
           L == [local[c] EXCEPT !.activeTimer = timer,
                                 !.currentNotes = timer.notes,
                                 !.currentTags = timer.tags]
           r == Render(c, local[c], L, FALSE, [Db EXCEPT !.hist.done[c] = "no"], now)
       IN Commit(c, r.L, r.D)
    /\ UNCHANGED <<now, sessionWritesFail>>

\* The activeTimers/current listener of client c delivers the current document;
\* its callback also sets the notes and tags inputs from it.
DeliverTimer(c) ==
    /\ "activeTimer" \in local[c].subscriptions
    /\ local[c].activeTimer # Snapshot(Db)
    /\ LET timer == Snapshot(Db)
           L == [local[c] EXCEPT !.activeTimer = timer,
                                 !.currentNotes = IF timer # Null THEN timer.notes ELSE "",
                                 !.currentTags = IF timer # Null THEN timer.tags ELSE <<>>]
           r == Render(c, local[c], L, FALSE, [Db EXCEPT !.hist.done[c] = "no"], now)
       IN Commit(c, r.L, r.D)
    /\ UNCHANGED <<now, sessionWritesFail>>

\* The settings/config listener of client c delivers the current document.
DeliverSettings(c) ==
    /\ "settings" \in local[c].subscriptions
    /\ local[c].settings # settingsDoc
    /\ LET r == Render(c, local[c], [local[c] EXCEPT !.settings = settingsDoc],
                       TRUE, Db, now)
       IN Commit(c, r.L, r.D)
    /\ UNCHANGED <<now, sessionWritesFail>>

\* The start / pause / resume control.
ToggleTimer(c) ==
    /\ CanClick
    /\ Commit(c, local[c], toggleTimer(c, local[c], Clicked, now))
    /\ UNCHANGED <<now, sessionWritesFail>>

\* The reset control: resetTimer.
ResetTimer(c) ==
    /\ CanClick
    /\ Commit(c, local[c], stopTimer(Clicked))
    /\ UNCHANGED <<now, sessionWritesFail>>

\* The mode toggle buttons: stop the timer the client sees, select the mode.
SwitchMode(c) ==
    /\ CanClick
    /\ \E mode \in Modes :
           Commit(c, [local[c] EXCEPT !.selectedMode = mode],
                  IF local[c].activeTimer # Null THEN stopTimer(Clicked) ELSE Clicked)
    /\ UNCHANGED <<now, sessionWritesFail>>

\* The finish control.
FinishEarly(c) ==
    /\ CanClick
    /\ Commit(c, local[c], handleFinishEarly(c, local[c], Clicked, now))
    /\ UNCHANGED <<now, sessionWritesFail>>

\* The +5 / -5 buttons: onClick={() => !isActive && changeDuration(change)}.
ChangeDuration(c) ==
    /\ CanClick
    /\ ~(local[c].activeTimer # Null /\ local[c].activeTimer.isActive)
    /\ \E change \in {DurationStep, -DurationStep} :
           LET r == changeDuration(c, local[c], Clicked, change, now)
           IN Commit(c, r.L, r.D)
    /\ UNCHANGED <<now, sessionWritesFail>>

\* The settings form saves on every change: timerDuration typed, or darkMode
\* toggled (timerDuration as it was).
SaveSettings(c) ==
    /\ CanClick
    /\ \E timerDuration \in (1..MaxFormMinutes) \cup {local[c].settings} :
           LET r == handleSaveSettings(c, local[c], Clicked, timerDuration, now)
           IN Commit(c, r.L, r.D)
    /\ UNCHANGED <<now, sessionWritesFail>>

ClientStep(c) ==
    \/ Tick(c)
    \/ DeliverTimer(c)
    \/ DeliverSettings(c)
    \/ ToggleTimer(c)
    \/ ResetTimer(c)
    \/ SwitchMode(c)
    \/ FinishEarly(c)
    \/ ChangeDuration(c)
    \/ SaveSettings(c)

Next ==
    \/ Advance
    \/ \E c \in Clients : ClientStep(c)

Spec == Init /\ [][Next]_vars

\* The same program over a gateway that rejects session writes.
SpecFaulty == InitFaulty /\ [][Next]_vars

\* Some stored timer is a running pomodoro timer whose time is up.
TimeIsUp ==
    /\ Snapshot(Db) # Null
    /\ Snapshot(Db).mode = "pomodoro"
    /\ Snapshot(Db).isActive
    /\ Max(0, Snapshot(Db).initialDuration * MsPerSec
                 - ElapsedSeconds(Snapshot(Db), now)) = 0

\* The client the user works at; the other one is open and left alone.
Attended == "a"

\* The program left to itself once a timer's time is up: the user, at one
\* client, sets the default duration and starts, pauses and resumes timers,
\* and uses no control while the time of the stored timer is up.
NextLive ==
    \/ Advance
    \/ \E c \in Clients :
          \/ Tick(c)
          \/ DeliverTimer(c)
          \/ DeliverSettings(c)
          \/ ~TimeIsUp /\ c = Attended /\ ToggleTimer(c)
          \/ ~TimeIsUp /\ c = Attended /\ SaveSettings(c)

\* What happens without the user: time passes, the 1 Hz interval of a client
\* that holds a timer fires (setInterval), and the timer listeners deliver
\* the stored document (onSnapshot).
Scheduled ==
    \/ Advance
    \/ \E c \in Clients : Tick(c) \/ DeliverTimer(c)

\* As it is scheduled: the program does not stop while the clock, an interval
\* or a listener has something to do.
SpecLive == Init /\ [][NextLive]_vars /\ WF_vars(Scheduled)

\* Two open clients and the timer controls of one: the user starts, pauses,
\* resumes and resets pomodoro timers of the default duration.
NextDeliver ==
    \/ Advance
    \/ \E c \in Clients : Tick(c) \/ DeliverTimer(c)
    \/ ToggleTimer(Attended)
    \/ ResetTimer(Attended)

\* The same schedule: the clock, the intervals and the listeners go on.
SpecDeliver == Init /\ [][NextDeliver]_vars /\ WF_vars(Scheduled)

\* The projects listener of client c delivers the collection: with no
\* project it creates the defaults and does not call back.
DeliverProjects(c) ==
    /\ "projects" \in local[c].subscriptions
    /\ local[c].projects # ProjectList(projects)
    /\ IF projects = {}
       THEN Commit(c, local[c], initializeDefaultProjects(Db))
       ELSE LET L == [local[c] EXCEPT !.projects = ProjectList(projects)]
                r == Render(c, local[c], L, FALSE, Db, now)
            IN Commit(c, r.L, r.D)
    /\ UNCHANGED <<now, sessionWritesFail>>

\* A click on a project of the list: setActiveProjectId.
SelectProject(c) ==
    /\ \E i \in 1..Len(local[c].projects) :
           LET L == [local[c] EXCEPT !.activeProjectId = local[c].projects[i].id]
               r == Render(c, local[c], L, FALSE, Db, now)
           IN Commit(c, r.L, r.D)
    /\ UNCHANGED <<now, sessionWritesFail>>

\* initiateDeleteProject(project) of client c.
InitiateDeleteProject(c) ==
    /\ Len(local[c].projects) > 1
    /\ \E i \in 1..Len(local[c].projects) :
           Commit(c, [local[c] EXCEPT !.projectToDelete = local[c].projects[i].id], Db)
    /\ UNCHANGED <<now, sessionWritesFail>>

\* confirmDeleteProject of client c at time t.
confirmDeleteProject(c, L, D, t) ==
    LET others == {i \in 1..Len(L.projects) : L.projects[i].id # L.projectToDelete}
        L1 == IF L.activeProjectId = L.projectToDelete /\ others # {}
              THEN [L EXCEPT !.activeProjectId =
                        L.projects[CHOOSE i \in others : \A j \in others : i <= j].id]
              ELSE L
        L2 == [L1 EXCEPT !.projectToDelete = Absent]
    IN Render(c, L, L2, FALSE, deleteProject(D, L.projectToDelete), t)

\* The delete button of the confirmation dialog.
ConfirmDeleteProject(c) ==
    /\ CanClick
    /\ local[c].projectToDelete # Absent
    /\ LET r == confirmDeleteProject(c, local[c], Clicked, now)
       IN Commit(c, r.L, r.D)
    /\ UNCHANGED <<now, sessionWritesFail>>

\* The edit dialog: updateProject with a new name and colour.
EditProject(c) ==
    /\ CanClick
    /\ \E i \in 1..Len(local[c].projects) :
           Commit(c, local[c],
                  updateProject(Clicked, local[c].projects[i].id, "Renamed", "red"))
    /\ UNCHANGED <<now, sessionWritesFail>>

\* The notes input changes: setCurrentNotes.
TypeNotes(c) ==
    /\ \E text \in NoteTexts :
           LET r == Render(c, local[c], [local[c] EXCEPT !.currentNotes = text],
                           FALSE, Db, now)
           IN Commit(c, r.L, r.D)
    /\ UNCHANGED <<now, sessionWritesFail>>

\* The debounced effect that writes the notes and tags inputs to the timer.
SyncMetadata(c) ==
    /\ local[c].activeTimer # Null
    /\ \/ local[c].currentNotes # local[c].activeTimer.notes
       \/ local[c].currentTags # local[c].activeTimer.tags
    /\ Commit(c, local[c],
              updateTimerMetadata(Db, local[c].currentNotes, local[c].currentTags))
    /\ UNCHANGED <<now, sessionWritesFail>>

\* addTag / removeTag of client c: the tag list changes and, with a timer,
\* is written at once.
EditTags(c) ==
    /\ \E updatedTags \in TagLists :
           LET L == [local[c] EXCEPT !.currentTags = updatedTags]
               D == IF local[c].activeTimer # Null
                    THEN updateTimerMetadata(Db, local[c].currentNotes, updatedTags)
                    ELSE Db
               r == Render(c, local[c], L, FALSE, D, now)
           IN Commit(c, r.L, r.D)
    /\ UNCHANGED <<now, sessionWritesFail>>

\* The projects around a timer, at the client the user works at: timers are
\* started and finished, projects selected, edited and deleted.
NextProjects ==
    \/ Advance
    \/ DeliverTimer(Attended)
    \/ DeliverProjects(Attended)
    \/ local[Attended].activeTimer = Null /\ ToggleTimer(Attended)
    \/ FinishEarly(Attended)
    \/ SelectProject(Attended)
    \/ InitiateDeleteProject(Attended)
    \/ ConfirmDeleteProject(Attended)
    \/ EditProject(Attended)

SpecProjects == Init /\ [][NextProjects]_vars

\* The notes and tags of a timer, at the client the user works at.
NextNotes ==
    \/ Advance
    \/ DeliverTimer(Attended)
    \/ SyncMetadata(Attended)
    \/ local[Attended].activeTimer = Null /\ ToggleTimer(Attended)
    \/ FinishEarly(Attended)
    \/ TypeNotes(Attended)
    \/ EditTags(Attended)

SpecNotes == Init /\ [][NextNotes]_vars

\* The startTime of an ActiveTimer document that has none, or a falsy one.
InvalidStartTimes == {Absent, 0}

\* A document of activeTimers/current that this program did not write
\* (startTimer always sets startTime): it is stored as it is, and the
\* listener hands it to the clients unchecked, as an ActiveTimer.
StoreInvalidTimer ==
    /\ echo = {}
    /\ \E mode \in Modes, startTime \in InvalidStartTimes :
          LET timerDoc == [mode |-> mode,
                           isActive |-> TRUE,
                           startTime |-> startTime,
                           pausedDuration |-> 0,
                           projectId |-> ProjectList(InitialProjects)[1].id,
                           projectName |-> ProjectList(InitialProjects)[1].name,
                           notes |-> "",
                           tags |-> <<>>,
                           initialDuration |-> IF mode = "pomodoro"
                                               THEN settingsDoc * SecPerMin ELSE Absent,
                           pausedAt |-> Absent,
                           inst |-> 0]
          IN /\ Snapshot(Db) # timerDoc
             /\ activeTimers' = SetDoc(activeTimers, CurrentDoc, timerDoc)
    /\ hist' = [hist EXCEPT !.ran = 0, !.plain = FALSE, !.changes = <<>>, !.base = Null]
    /\ UNCHANGED <<now, sessions, settingsDoc, projects, local, echo,
                   sessionWritesFail, nextId>>

\* The program over a store in which such documents appear.
NextInvalid ==
    \/ Advance
    \/ StoreInvalidTimer
    \/ Tick(Attended)
    \/ DeliverTimer(Attended)
    \/ local[Attended].activeTimer = Null /\ ToggleTimer(Attended)
    \/ FinishEarly(Attended)

SpecInvalid == Init /\ [][NextInvalid]_vars

\* The notes and tags inputs around a timer that is paused, resumed and reset.
NextBurst ==
    \/ Advance
    \/ DeliverTimer(Attended)
    \/ SyncMetadata(Attended)
    \/ ToggleTimer(Attended)
    \/ ResetTimer(Attended)
    \/ TypeNotes(Attended)
    \/ EditTags(Attended)

SpecBurst == Init /\ [][NextBurst]_vars

\* The cleanup of the subscription effect: the four unsubscribe calls.
SubscriptionCleanup(L) == [L EXCEPT !.subscriptions = {}]

\* Client c's component unmounts (the page is closed, the user signs out):
\* the cleanups of its effects run.
Unmount(c) ==
    /\ local[c].mounted
    /\ LET L0 == IF local[c].activeTimer # Null THEN DisplayCleanup(local[c]) ELSE local[c]
           L1 == SubscriptionCleanup(L0)
       IN local' = [local EXCEPT ![c] = [L1 EXCEPT !.mounted = FALSE]]
    /\ echo' = echo \ {c}
    /\ UNCHANGED <<now, activeTimers, sessions, settingsDoc, projects,
                   sessionWritesFail, nextId, hist>>

\* Clients that come and go: timers are started, paused, resumed, reset and
\* switched at the mounted clients, and a client unmounts.
NextMount ==
    \/ Advance
    \/ \E c \in Clients :
          \/ Tick(c)
          \/ DeliverTimer(c)
          \/ local[c].mounted /\ ToggleTimer(c)
          \/ local[c].mounted /\ ResetTimer(c)
          \/ local[c].mounted /\ SwitchMode(c)
          \/ Unmount(c)

SpecMount == Init /\ [][NextMount]_vars

\* Time passes by FineStep ms.
AdvanceFine ==
    /\ now + FineStep <= Epoch + MaxFineSteps * FineStep
    /\ Pass(FineStep)

\* The first seconds of a timer: start / pause / resume and finish early.
NextFine ==
    \/ AdvanceFine
    \/ \E c \in Clients :
          \/ Tick(c)
          \/ DeliverTimer(c)
          \/ ToggleTimer(c)
          \/ SwitchMode(c)
          \/ FinishEarly(c)

SpecFine == Init /\ [][NextFine]_vars

\* What the duration field of the settings form can hold when it changes:
\* Number(e.target.value) of a number input, which is 0 for the emptied field
\* and is not clamped.
TypedMinutes == {0, MinMinutes, MaxMinutes, MaxMinutes + 1}

\* The duration field of the settings form changes on client c.
TypeDuration(c) ==
    /\ CanClick
    /\ \E timerDuration \in TypedMinutes :
           LET r == handleSaveSettings(c, local[c], Clicked, timerDuration, now)
           IN Commit(c, r.L, r.D)
    /\ UNCHANGED <<now, sessionWritesFail>>

\* The controls that write Settings, used with any value the form can hold,
\* and the timer's start / pause / resume control.
NextSettings ==
    \E c \in Clients :
        \/ TypeDuration(c)
        \/ ChangeDuration(c)
        \/ DeliverSettings(c)
        \/ ToggleTimer(c)
        \/ DeliverTimer(c)

SpecSettings == Init /\ [][NextSettings]_vars

\* ------------------------------------------------------------- the claims

\* The stored ActiveTimer document, or Null.
StoredTimer == Snapshot(Db)

\* The step keeps the stored timer: it exists before and after, and is the
\* timer of the same Start.
SameTimer ==
    /\ StoredTimer # Null
    /\ StoredTimer' # Null
    /\ StoredTimer'.inst = StoredTimer.inst

\* C1: on one client, the completion check materializes a completed pomodoro
\* timer once: it builds no session for an activeTimer the client has already
\* auto-completed and whose deletion has not been delivered to it yet.
C1_AutoCompleteOnce ==
    \A e \in hist.log : ~(e.via = "auto" /\ e.after = "auto")

\* C2: FinishEarly used again on the activeTimer a client has already
\* finished early, before the deletion is delivered to it, builds no second
\* session.
C2_FinishEarlyOnce ==
    \A e \in hist.log : ~(e.via = "early" /\ e.after = "early")

\* C3: no step changes the startTime of the stored timer while it remains
\* the timer of the same Start.
C3_StartTimeImmutable ==
    [][SameTimer => StoredTimer'.startTime = StoredTimer.startTime]_vars

\* C4: the activeTimers collection of the user holds at most one document.
C4_AtMostOneActiveTimer == Cardinality(DOMAIN activeTimers) <= 1

\* C4 witness: a second timer has been started and a timer is stored.
C4_Witness == hist.inst > 2 /\ StoredTimer # Null

\* C5: every saveSession that deleted the timer has its session stored: the
\* timer is never deleted by materialization without the session recorded.
C5_DeletedOnlyAfterSessionWritten ==
    \A e \in hist.log : \E s \in sessions : s.id = e.id

\* The finish of log entry e was made on the stored timer, which was started
\* by the start control and only paused and resumed since, and was running.
PlainRunningFinish(e) ==
    /\ e.via = "early"
    /\ e.plain
    /\ e.stored # Null
    /\ e.stored.inst = e.inst
    /\ e.stored.isActive

Abs(x) == IF x >= 0 THEN x ELSE -x

PausedAwareDuration(timer, t) ==
    IF timer.mode = "pomodoro"
    THEN timer.initialDuration * MsPerSec
           - Max(0, timer.initialDuration * MsPerSec - ElapsedSeconds(timer, t))
    ELSE Floor(ElapsedSeconds(timer, t)) * MsPerSec

\* C7: FinishEarly on a paused timer saves the duration frozen at pausedAt.
C7_FinishEarlyPausedAware ==
    \A e \in hist.log :
        (e.via = "early" /\ ~e.seen.isActive) =>
            e.duration = PausedAwareDuration(e.seen, e.at)

\* The times at which a display would read the clock again.
LaterTimes == {now + k * TimeStep : k \in 0..MaxTimeSteps} \cup {now + 1, now + MsPerSec}

\* Client c holds a paused timer.
ShowsPaused(c) ==
    /\ local[c].activeTimer # Null
    /\ ~local[c].activeTimer.isActive

\* C8: while a client holds a paused timer, the elapsed time it computes is
\* the same at every later time, and computing the display again at any
\* later time leaves the displayed values as they are.
C8_PausedElapsedFrozen ==
    \A c \in Clients :
        ShowsPaused(c) =>
            \A t \in LaterTimes :
                /\ ElapsedSeconds(local[c].activeTimer, t)
                     = ElapsedSeconds(local[c].activeTimer, now)
                /\ calculateTime(local[c], t) = local[c]

\* C8 witness: a client holds a timer paused after a resume, and time has
\* passed since the pause.
C8_Witness ==
    \E c \in Clients :
        /\ ShowsPaused(c)
        /\ local[c].activeTimer.pausedDuration > 0
        /\ now > local[c].activeTimer.pausedAt

ShowsRunning(c) ==
    /\ local[c].activeTimer # Null
    /\ local[c].activeTimer.isActive

C12_PauseSetsPausedAt ==
    [][\A c \in Clients :
          (ToggleTimer(c) /\ ShowsRunning(c) /\ StoredTimer # Null /\ StoredTimer.isActive) =>
              /\ StoredTimer' # Null
              /\ StoredTimer' = [StoredTimer EXCEPT !.isActive = FALSE, !.pausedAt = now]
      ]_vars

\* C12 witness: a timer paused for the second time, after time has run: it
\* keeps the pausedDuration of the first pause.
C12_Witness ==
    /\ StoredTimer # Null
    /\ ~StoredTimer.isActive
    /\ StoredTimer.pausedDuration > 0
    /\ StoredTimer.pausedAt = now

ShowsStoredPomodoro(c) ==
    /\ local[c].activeTimer # Null
    /\ local[c].activeTimer.mode = "pomodoro"
    /\ StoredTimer # Null
    /\ StoredTimer.inst = local[c].activeTimer.inst

\* C15: a use of the +5 / -5 control by a client that holds the stored
\* pomodoro timer rewrites the timer's initialDuration to the new setting in
\* seconds and leaves its startTime and pausedDuration as they were.
C15_ChangeDurationRewritesTimer ==
    [][\A c \in Clients :
          (ChangeDuration(c) /\ ShowsStoredPomodoro(c)) =>
              /\ StoredTimer' # Null
              /\ StoredTimer'.initialDuration = settingsDoc' * SecPerMin
              /\ StoredTimer'.startTime = StoredTimer.startTime
              /\ StoredTimer'.pausedDuration = StoredTimer.pausedDuration
      ]_vars

\* remaining of calculateTime for a pomodoro timer at time t (thousandths).
Remaining(timer, t) ==
    Max(0, timer.initialDuration * MsPerSec - ElapsedSeconds(timer, t))

\* C16: a use of the +5 / -5 control on a paused pomodoro timer changes the
\* remaining time to that of the new setting and leaves pausedDuration and
\* the elapsed time as they were.
C16_ChangeDurationWhilePaused ==
    [][\A c \in Clients :
          (ChangeDuration(c) /\ ShowsStoredPomodoro(c) /\ ShowsPaused(c)
             /\ ~StoredTimer.isActive) =>
              /\ StoredTimer' # Null
              /\ StoredTimer'.pausedDuration = StoredTimer.pausedDuration
              /\ ElapsedSeconds(StoredTimer', now) = ElapsedSeconds(StoredTimer, now)
              /\ Remaining(StoredTimer', now)
                    = Max(0, settingsDoc' * SecPerMin * MsPerSec
                               - ElapsedSeconds(StoredTimer, now))
      ]_vars

C18_TimerDurationInRange ==
    /\ settingsDoc \in MinMinutes..MaxMinutes
    /\ \A c \in Clients : local[c].settings \in MinMinutes..MaxMinutes

\* The stored timer has been auto-completed: no timer is stored, and the
\* session stored last was stored by the completion check of a client, which
\* removed the stored timer and gave the session that timer's startTime and
\* its initialDuration as durationSeconds.
AutoCompleted ==
    /\ StoredTimer = Null
    /\ \E e \in hist.log :
          /\ e.id = nextId - 1
          /\ e.via = "auto"
          /\ e.stored # Null
          /\ \E s \in sessions :
                /\ s.id = e.id
                /\ s.startTime = e.stored.startTime
                /\ s.durationSeconds = e.stored.initialDuration * MsPerSec

\* C19: when the remaining time of the running stored pomodoro timer is 0
\* and the user leaves the controls alone, the timer is eventually
\* auto-completed: a session of the nominal duration is stored and the timer
\* is absent.
C19_AutoCompletesAtZero == TimeIsUp ~> AutoCompleted

\* C19 witness: a timer that ran to remaining 0 has been auto-completed.
C19_Witness ==
    /\ AutoCompleted
    /\ \E e \in hist.log :
          /\ e.id = nextId - 1
          /\ e.stored # Null
          /\ Remaining(e.stored, e.at) = 0

\* C20: the completion check materializes a session only for a running
\* pomodoro timer whose remaining time, computed from the timer's own fields
\* at that moment, is 0.
C20_AutoCompleteOnlyAtZero ==
    \A e \in hist.log :
        e.via = "auto" =>
            /\ e.seen.mode = "pomodoro"
            /\ e.seen.isActive
            /\ Remaining(e.seen, e.at) = 0

\* C21: finish early with a computed duration of at most 1 second deletes
\* the timer and stores no session; with a computed duration above 1 second
\* it stores one session carrying that duration and deletes the timer.
C21_FinishEarlyThreshold ==
    [][\A c \in Clients :
          (FinishEarly(c) /\ local[c].activeTimer # Null)
              => LET duration == FinishDuration(local[c], now)
                 IN /\ StoredTimer' = Null
                    /\ IF duration <= MinSavedSeconds * MsPerSec
                       THEN sessions' = sessions
                       ELSE \E s \in sessions' \ sessions :
                              /\ sessions' = sessions \cup {s}
                              /\ s.durationSeconds = duration]_vars

\* C21 witness: a finish early 1.5 s after the start has stored a session,
\* and the client that is at a timer started 1 s ago has a finish early
\* that cancels.
C21_Witness ==
    /\ \E e \in hist.log :
          /\ e.via = "early"
          /\ e.duration = 3 * FineStep
          /\ \E s \in sessions : s.id = e.id /\ s.durationSeconds = e.duration
    /\ \E c \in Clients :
          /\ local[c].activeTimer # Null
          /\ FinishDuration(local[c], now) = MinSavedSeconds * MsPerSec

\* C22: a start (the control used by a client that holds no timer) stores a
\* timer with startTime = now, isActive, pausedDuration 0, no pausedAt, the
\* selected mode, and initialDuration = the client's settings duration * 60
\* for pomodoro and none for stopwatch.
C22_StartCreatesTimer ==
    [][\A c \in Clients :
          (ToggleTimer(c) /\ local[c].activeTimer = Null)
              => /\ StoredTimer' # Null
                 /\ StoredTimer'.mode = local[c].selectedMode
                 /\ StoredTimer'.startTime = now
                 /\ StoredTimer'.isActive
                 /\ StoredTimer'.pausedDuration = 0
                 /\ StoredTimer'.pausedAt = Absent
                 /\ StoredTimer'.initialDuration =
                        IF local[c].selectedMode = "pomodoro"
                        THEN local[c].settings * SecPerMin
                        ELSE Absent]_vars

\* C22 witness: a stopwatch timer started after the epoch, just stored.
C22_Witness ==
    /\ StoredTimer # Null
    /\ StoredTimer.mode = "stopwatch"
    /\ StoredTimer.isActive
    /\ StoredTimer.startTime = now
    /\ now > Epoch
    /\ StoredTimer.initialDuration = Absent
    /\ hist.inst > 1

\* C23: a start is written only when no timer is stored: it never replaces
\* a stored timer.
C23_StartOnlyWhenAbsent ==
    [][\A c \in Clients :
          (ToggleTimer(c) /\ local[c].activeTimer = Null) => StoredTimer = Null]_vars

\* C24: the reset control and a mode toggle used while a timer is stored
\* delete the timer and leave the sessions as they are.
C24_ResetAndSwitchDiscard ==
    [][\A c \in Clients :
          ((ResetTimer(c) \/ SwitchMode(c)) /\ StoredTimer # Null)
              => StoredTimer' = Null /\ sessions' = sessions]_vars

\* C25: a materialized session has the startTime, projectId, projectName,
\* notes and tags of the timer stored when it was materialized, and
\* endTime = now.
C25_SessionCopiesTimer ==
    \A e \in hist.log :
        (e.written /\ e.stored # Null) =>
            \E s \in sessions :
                /\ s.id = e.id
                /\ s.startTime = e.stored.startTime
                /\ s.endTime = e.at
                /\ s.projectId = e.stored.projectId
                /\ s.projectName = e.stored.projectName
                /\ s.notes = e.stored.notes
                /\ s.tags = e.stored.tags

\* The project with the id given in the list of client c, as a set (empty
\* when the list has none).
ListedProject(c, projectId) ==
    {local[c].projects[i] : i \in {j \in 1..Len(local[c].projects) :
                                      local[c].projects[j].id = projectId}}

\* The sessions a step has added.
NewSessions == sessions' \ sessions

C27_ProjectsNeverEmpty == projects # {}

\* C28: the deletion of a project leaves every stored session as it is.
C28_DeleteProjectKeepsSessions ==
    [][((\E c \in Clients : ConfirmDeleteProject(c)) \/ projects' # projects)
          => sessions \subseteq sessions']_vars

\* C28 witness: a session stored earlier, with the name and colour of its
\* project, whose project is stored no more.
C28_Witness ==
    \E s \in sessions :
        /\ s.endTime < now
        /\ \A p \in projects : p.id # s.projectId
        /\ \E p \in InitialProjects :
              p.id = s.projectId /\ p.name = s.projectName /\ p.color = s.color

\* The activeTimer client c holds has no usable startTime.
HoldsInvalidTimer(c) ==
    /\ local[c].activeTimer # Null
    /\ ~Truthy(local[c].activeTimer.startTime)

\* What the display shows with no active timer, for the mode of the timer
\* the client holds: the configured duration, or zero seconds.
ShowsDefaults(c) ==
    IF local[c].activeTimer.mode = "pomodoro"
    THEN local[c].timeLeft = DefaultDuration(local[c].settings)
    ELSE local[c].stopwatchSeconds = 0

\* C29: a client holding an ActiveTimer without a valid startTime shows the
\* defaults, and FinishEarly on such a timer creates no session.
C29_InvalidTimerShowsDefaults ==
    /\ \A c \in Clients : HoldsInvalidTimer(c) => ShowsDefaults(c)
    /\ \A e \in hist.log : e.via = "early" => Truthy(e.seen.startTime)

\* A client mounted anew (page reload, second device) once its listeners have
\* delivered the activeTimer and the settings that client c holds.
Restarted(c) ==
    [local[c] EXCEPT !.timeLeft = DefaultMinutes * SecPerMin,
                     !.stopwatchSeconds = 0,
                     !.selectedMode = "pomodoro",
                     !.currentNotes = "", !.currentTags = <<>>,
                     !.intervals = {}, !.displayUpdateRef = Absent]

\* What a client's state L shows of the time.
Shown(L) == <<L.timeLeft, L.stopwatchSeconds>>

\* Client c shows what a client restarted from its snapshot computes now.
ShowsAsRestarted(c) == Shown(local[c]) = Shown(DisplayEffect(Restarted(c), now))

\* C30: whenever a client's display is computed (what it shows changes, or
\* the ActiveTimer snapshot or the settings it holds change), it shows what a
\* client restarted from the same snapshot and settings shows at the same
\* time, whatever the client has seen before.
C30_DisplayRestartable ==
    [][\A c \in Clients :
          (\/ Shown(local[c]') # Shown(local[c])
           \/ local[c].activeTimer' # local[c].activeTimer
           \/ local[c].settings' # local[c].settings) => ShowsAsRestarted(c)']_vars

\* C30 witness: a client holds the stored timer, running again after a pause,
\* and shows part of it gone, as a restarted client would.
C30_Witness ==
    \E c \in Clients :
        /\ local[c].activeTimer # Null
        /\ local[c].activeTimer = Snapshot(Db)
        /\ local[c].activeTimer.isActive
        /\ local[c].activeTimer.pausedDuration > 0
        /\ ShowsAsRestarted(c)
        /\ \/ local[c].stopwatchSeconds > 0
           \/ /\ local[c].activeTimer.mode = "pomodoro"
              /\ local[c].timeLeft < local[c].activeTimer.initialDuration

\* The client that is open and left alone.
Observer == CHOOSE c \in Clients : c # Attended

\* C31: a stored ActiveTimer that differs from what a subscribed client holds
\* is eventually delivered to it (the document, or null once it is absent),
\* with no control used at that client.
C31_TimerEventuallyDelivered ==
    \A c \in Clients :
        (local[c].activeTimer # Snapshot(Db)) ~> (local[c].activeTimer = Snapshot(Db))

\* C31 witness: the client left alone holds the running timer that was
\* started at the other one.
C31_Witness ==
    /\ Snapshot(Db) # Null
    /\ Snapshot(Db).isActive
    /\ local[Observer].activeTimer = Snapshot(Db)
    /\ hist.clicks > 0

\* C32: a notification of the ActiveTimer caused by another operation (the
\* snapshot carries the notes and tags the client last saw) leaves the notes
\* and tags the client has edited in place, and the debounced write stores
\* them: the stored notes and tags become the latest edited values.
C32_EditsSurviveNotifications ==
    [][\A c \in Clients :
          /\ (/\ DeliverTimer(c)
              /\ local[c].activeTimer # Null
              /\ Snapshot(Db) # Null
              /\ Snapshot(Db).notes = local[c].activeTimer.notes
              /\ Snapshot(Db).tags = local[c].activeTimer.tags)
                => /\ local[c].currentNotes' = local[c].currentNotes
                   /\ local[c].currentTags' = local[c].currentTags
          /\ (SyncMetadata(c) /\ Snapshot(Db) # Null)
                => /\ Snapshot(Db)'.notes = local[c].currentNotes
                   /\ Snapshot(Db)'.tags = local[c].currentTags]_vars

\* C33: a client has at most one live tick interval, and none while it
\* holds no ActiveTimer; an unmounted client has no live interval and no
\* subscription left.
C33_OneTickInterval ==
    \A c \in Clients :
        /\ Cardinality(local[c].intervals) <= 1
        /\ local[c].activeTimer = Null => local[c].intervals = {}
        /\ ~local[c].mounted => local[c].intervals = {} /\ local[c].subscriptions = {}

\* C33 witness: a client that has unmounted while it held a timer replaced
\* before (a timer paused or resumed), its interval and listeners released.
C33_Witness ==
    \E c \in Clients :
        /\ ~local[c].mounted
        /\ local[c].activeTimer # Null
        /\ local[c].activeTimer.pausedAt # Absent
        /\ local[c].intervals = {}
        /\ local[c].subscriptions = {}

\* C34: an absent ActiveTimer becomes present only by a start: the step that
\* stores a timer where there was none is the start control used at a client
\* that holds no timer.
C34_AbsentUntilStart ==
    [][(Snapshot(Db) = Null /\ Snapshot(Db)' # Null)
          => \E c \in Clients : local[c].activeTimer = Null /\ ToggleTimer(c)]_vars

\* C35: a running pomodoro timer that two clients see reach 0 is stored as
\* one session: no two clients' completion checks each store a session of
\* the same timer.
C35_OneSessionForTwoObservers ==
    \A e1, e2 \in hist.log :
        (/\ e1.via = "auto" /\ e2.via = "auto"
         /\ e1.written /\ e2.written
         /\ e1.seen = e2.seen) => e1.by = e2.by

Unlabelled(timer) ==
    IF timer = Null THEN Null ELSE [timer EXCEPT !.notes = "", !.tags = <<>>]

\* C37: the debounced write and addTag / removeTag change nothing of the
\* stored ActiveTimer but its notes and tags, and store no timer where there
\* is none.
C37_MetadataFrame ==
    [][\A c \in Clients :
          (SyncMetadata(c) \/ EditTags(c))
              => Unlabelled(Snapshot(Db)') = Unlabelled(Snapshot(Db))]_vars

\* C37 witness: the notes and tags have been written to a timer paused and
\* resumed before, which has kept its other fields.
C37_Witness ==
    /\ Snapshot(Db) # Null
    /\ Snapshot(Db).notes = "notes"
    /\ Snapshot(Db).tags = <<"tag">>
    /\ Snapshot(Db).pausedDuration > 0
    /\ Snapshot(Db).startTime < now
    /\ Snapshot(Db).initialDuration = DefaultMinutes * SecPerMin

\* C38: every stored session has a positive durationSeconds that exceeds the
\* span from its startTime to its endTime by no more than one second.
C38_DurationWithinSpan ==
    \A s \in sessions :
        /\ s.durationSeconds > 0
        /\ s.durationSeconds <= (s.endTime - s.startTime) + MsPerSec

====
